---- MODULE Spec2Model ----
(***************************************************************************)
(* A model of the trendy_scrape discovery pipeline:                        *)
(*   web_search.py   firecrawl_search, ddg_search, search_all              *)
(*   web_scraper.py  normalize_url, scrape_with_firecrawl,                 *)
(*                   scrape_with_selenium, scrape_website                  *)
(*   agent.py        parse_product_page, fetch_products_via_scrape,        *)
(*                   FirecrawlHTTPFallback.query, main (the chat loop)     *)
(*                                                                         *)
(* Python strings are sequences of one-character strings, so that          *)
(* startswith, strip and concatenation are computed and not assumed.       *)
(* JSON values are records [k, t, s, l]: k is the key under which the      *)
(* value sits in its parent dict ("" elsewhere), t its type, s its text    *)
(* (str, num) and l its children (list: elements, dict: entries in         *)
(* insertion order).                                                       *)
(***************************************************************************)
EXTENDS Integers, Sequences, FiniteSets, TLC

\* ------------------------------------------------------------------ bounds

\* the largest requested count (num_results) of a search_all call
MaxCount == 2
\* the longest result array / anchor list a search response carries
MaxItems == 3

\* ----------------------------------------------------------------- strings

HTTP == <<"h", "t", "t", "p", ":", "/", "/">>
HTTPS == <<"h", "t", "t", "p", "s", ":", "/", "/">>
\* the prefix the search strategies test with startswith("http")
HTTPWORD == <<"h", "t", "t", "p">>
SLASH == <<"/">>

U1 == HTTP \o <<"a">>
U2 == HTTPS \o <<"b">>
U3 == HTTP \o <<"c">>
\* a string that is no URL
TXT == <<"x">>
\* an in-site link of the search engine's result page
REL == <<"/", "l">>

StartsWith(u, p) == Len(u) >= Len(p) /\ SubSeq(u, 1, Len(p)) = p

\* Python's s[:n] for n >= 0
Take(s, n) == SubSeq(s, 1, IF n < Len(s) THEN n ELSE Len(s))

SeqsUpTo(S, n) == UNION {[1..m -> S] : m \in 0..n}

NoDuplicates(s) == \A i, j \in 1..Len(s) : s[i] = s[j] => i = j

RECURSIVE DedupeFrom(_, _, _)
DedupeFrom(s, i, uniq) ==
    IF i > Len(s) THEN uniq
    ELSE DedupeFrom(s, i + 1,
                    IF \E j \in 1..Len(uniq) : uniq[j] = s[i]
                    THEN uniq ELSE Append(uniq, s[i]))

\* "dedupe keeping order": uniq/seen loop of both search strategies
Dedupe(s) == DedupeFrom(s, 1, <<>>)

\* -------------------------------------------------------------------- JSON

JNull == [k |-> "", t |-> "null", s |-> <<>>, l |-> <<>>]
JStr(s) == [k |-> "", t |-> "str", s |-> s, l |-> <<>>]
JNum(s) == [k |-> "", t |-> "num", s |-> s, l |-> <<>>]
JList(l) == [k |-> "", t |-> "list", s |-> <<>>, l |-> l]
JDict(l) == [k |-> "", t |-> "dict", s |-> <<>>, l |-> l]
Key(k, v) == [v EXCEPT !.k = k]

\* Python truthiness of a JSON value
Truthy(v) ==
    CASE v.t = "null" -> FALSE
      [] v.t = "str" -> v.s # <<>>
      [] v.t = "num" -> v.s # <<"0">>
      [] OTHER -> v.l # <<>>

\* dict.get(key): the value, None (JNull) when the key is absent
Get(d, key) ==
    IF \E i \in 1..Len(d.l) : d.l[i].k = key
    THEN Key("", d.l[CHOOSE i \in 1..Len(d.l) : d.l[i].k = key])
    ELSE JNull

\* a or b (Python: the first operand when truthy, else the second)
Or(a, b) == IF Truthy(a) THEN a ELSE b

\* --------------------------------------------------- firecrawl_search

\* what a called function does: returns val, or raises
Ret(v) == [kind |-> "ret", val |-> v]
Raise == [kind |-> "raise", val |-> <<>>]

ResultKeys == <<"results", "data", "items">>

RECURSIVE ItemUrls(_, _, _)
\* the inner loop over one result array: the url/link/target of each dict item
ItemUrls(l, i, acc) ==
    IF i > Len(l) THEN acc
    ELSE LET it == l[i]
             url == Or(Or(Get(it, "url"), Get(it, "link")), Get(it, "target"))
         IN  ItemUrls(l, i + 1,
                      IF it.t = "dict" /\ Truthy(url) THEN Append(acc, url.s) ELSE acc)

RECURSIVE KnownKeys(_, _, _, _)
\* the loop over the known result-array keys; results accumulates across keys
KnownKeys(data, i, results, num_results) ==
    IF i > Len(ResultKeys) THEN [found |-> FALSE, val |-> <<>>]
    ELSE LET v == Get(data, ResultKeys[i])
         IN  IF v.t = "list"
             THEN LET r2 == ItemUrls(v.l, 1, results)
                  IN  IF r2 # <<>>
                      THEN [found |-> TRUE, val |-> Take(r2, num_results)]
                      ELSE KnownKeys(data, i + 1, r2, num_results)
             ELSE KnownKeys(data, i + 1, results, num_results)

RECURSIVE extract_urls_from_obj(_)
RECURSIVE ExtractEach(_, _)
ExtractEach(l, i) ==
    IF i > Len(l) THEN <<>> ELSE extract_urls_from_obj(l[i]) \o ExtractEach(l, i + 1)

\* the deep walk: every string value that starts with "http", in document order
extract_urls_from_obj(obj) ==
    CASE obj.t \in {"dict", "list"} -> ExtractEach(obj.l, 1)
      [] obj.t = "str" -> IF StartsWith(obj.s, HTTPWORD) THEN <<obj.s>> ELSE <<>>
      [] OTHER -> <<>>

\* the parsing of a 200 response's JSON body, lines 63..98; data.get raises
\* AttributeError when data is no dict
ParseSearchBody(data, num_results) ==
    IF data.t # "dict" THEN Raise
    ELSE LET known == KnownKeys(data, 1, <<>>, num_results)
         IN  IF known.found THEN Ret(known.val)
             ELSE Ret(Take(Dedupe(extract_urls_from_obj(data)), num_results))

\* firecrawl_search(query, site, num_results) on the response resp of the API
firecrawl_search(key, resp, num_results) ==
    IF ~key THEN Ret(<<>>)
    ELSE IF resp.net # "ok" THEN Ret(<<>>)
    ELSE IF resp.status # 200 THEN Ret(<<>>)
    ELSE IF ~resp.json THEN Ret(<<>>)
    ELSE ParseSearchBody(resp.body, num_results)

\* ---------------------------------------------------------- ddg_search

RECURSIVE DdgLinks(_, _, _, _)
\* the loop over the anchors of the result page, with its break
DdgLinks(anchors, i, links, num_results) ==
    IF i > Len(anchors) THEN links
    ELSE LET href == anchors[i]
         IN  IF StartsWith(href, SLASH)
             THEN DdgLinks(anchors, i + 1, links, num_results)
             ELSE LET l2 == IF StartsWith(href, HTTPWORD) THEN Append(links, href) ELSE links
                  IN  IF Len(l2) >= num_results THEN l2
                      ELSE DdgLinks(anchors, i + 1, l2, num_results)

\* ddg_search(query, num_results) on the response page resp
ddg_search(resp, num_results) ==
    IF ~resp.ok THEN <<>>
    ELSE Take(Dedupe(DdgLinks(resp.anchors, 1, <<>>, num_results)), num_results)

\* ------------------------------------------- the search collaborators

\* result-array items: dicts with a URL under one of the probed keys, a dict
\* whose url is empty and whose target is not (with a title that is no URL),
\* and a bare string
SearchItems ==
    { JDict(<<Key("url", JStr(U1))>>),
      JDict(<<Key("link", JStr(U2))>>),
      JDict(<<Key("url", JStr(<<>>)), Key("title", JStr(TXT)), Key("target", JStr(U3))>>),
      JStr(U1) }

ItemLists == SeqsUpTo(SearchItems, MaxItems)
ShortLists == SeqsUpTo(SearchItems, 1)

\* JSON bodies of a 200 response: scalars and arrays at top level, objects with
\* a result array under a known key or under an unknown one ("web"), objects
\* whose first known key holds nothing usable, objects without any array
SearchBodies ==
    { JNull, JStr(U1), JNum(<<"7">>), JList(<<>>), JList(<<JStr(U1)>>) }
    \cup { JDict(<<Key(k, JList(l))>>) : k \in {"results", "web"}, l \in ItemLists }
    \cup { JDict(<<Key(k, JList(l))>>) : k \in {"data", "items"}, l \in ShortLists }
    \cup { JDict(<<Key("results", JList(<<JStr(TXT)>>)), Key("data", JList(l))>>) : l \in ShortLists }
    \cup { JDict(<<Key("results", JStr(U1)), Key("meta", JDict(<<Key("next", JStr(U1))>>))>>),
           JDict(<<Key("title", JStr(TXT))>>),
           JDict(<<>>) }

SearchResponses ==
    { [net |-> "error", status |-> 0, json |-> FALSE, body |-> JNull] }
    \cup { [net |-> "ok", status |-> st, json |-> FALSE, body |-> JNull] : st \in {200, 401, 403, 429, 500} }
    \cup { [net |-> "ok", status |-> 200, json |-> TRUE, body |-> b] : b \in SearchBodies }

DdgAnchors == {U1, U2, REL, TXT}

DdgResponses ==
    { [ok |-> FALSE, anchors |-> <<>>] }
    \cup { [ok |-> TRUE, anchors |-> a] : a \in SeqsUpTo(DdgAnchors, MaxItems) }

Queries == { <<"t", "v">> }
Sites == { <<>>, <<"a", ".", "i", "n">> }

\* ------------------------------------------------------------------- state

VARIABLES
    apiKey,      \* FIRECRAWL_API_KEY is set
    spc,         \* search_all: position of the call
    sargs,       \* search_all: its arguments [query, site, num_results]
    fcCalls,     \* number of firecrawl_search invocations of the call
    ddgCalls,    \* number of ddg_search invocations of the call
    fcReq,       \* the query string handed to the search API
    fcResp,      \* the search API's response
    fcOut,       \* what firecrawl_search did (returned list / raised)
    ddgReq,      \* the query string handed to the HTML search
    ddgOut,      \* what ddg_search returned
    sres         \* what search_all did (returned list / raised)

svars == <<apiKey, spc, sargs, fcCalls, ddgCalls, fcReq, fcResp, fcOut, ddgReq, ddgOut, sres>>

NoArgs == [query |-> <<>>, site |-> <<>>, num_results |-> 0]
NoSearchResp == [net |-> "none", status |-> 0, json |-> FALSE, body |-> JNull]

SearchIdle ==
    /\ spc = "idle"
    /\ sargs = NoArgs
    /\ fcCalls = 0
    /\ ddgCalls = 0
    /\ fcReq = <<>>
    /\ fcResp = NoSearchResp
    /\ fcOut = Ret(<<>>)
    /\ ddgReq = <<>>
    /\ ddgOut = <<>>
    /\ sres = Ret(<<>>)

\* f"site:{site} {query}" if site else query
SiteQuery(query, site) ==
    IF site # <<>> THEN <<"s", "i", "t", "e", ":">> \o site \o <<" ">> \o query ELSE query

\* ------------------------------------------------------------- search_all

\* a caller enters search_all(query, site, num_results)
SearchAllEnter(query, site, num_results) ==
    /\ spc' = "enter"
    /\ sargs' = [query |-> query, site |-> site, num_results |-> num_results]
    /\ fcCalls' = 0
    /\ ddgCalls' = 0
    /\ fcReq' = <<>>
    /\ fcResp' = NoSearchResp
    /\ fcOut' = Ret(<<>>)
    /\ ddgReq' = <<>>
    /\ ddgOut' = <<>>
    /\ sres' = Ret(<<>>)

\* fc = firecrawl_search(query, site, num_results)
SearchAllCallFirecrawl(Resps) ==
    /\ spc = "enter"
    /\ \E resp \in Resps :
          /\ fcResp' = resp
          /\ fcOut' = firecrawl_search(apiKey, resp, sargs.num_results)
    /\ fcReq' = SiteQuery(sargs.query, sargs.site)
    /\ fcCalls' = fcCalls + 1
    /\ spc' = "fc_done"
    /\ UNCHANGED <<apiKey, sargs, ddgCalls, ddgReq, ddgOut, sres>>

\* a search_all that runs the fallback whatever the primary strategy returned
SearchAllAfterFirecrawl_AlwaysFallback ==
    /\ spc = "fc_done"
    /\ IF fcOut.kind = "raise"
       THEN spc' = "raised" /\ sres' = Raise
       ELSE spc' = "call_ddg" /\ sres' = sres
    /\ UNCHANGED <<apiKey, sargs, fcCalls, ddgCalls, fcReq, fcResp, fcOut, ddgReq, ddgOut>>

\* if fc: return fc (an exception of firecrawl_search leaves search_all)
SearchAllAfterFirecrawl ==
    /\ spc = "fc_done"
    /\ IF fcOut.kind = "raise"
       THEN spc' = "raised" /\ sres' = Raise
       ELSE IF fcOut.val # <<>>
            THEN spc' = "returned" /\ sres' = Ret(fcOut.val)
            ELSE spc' = "call_ddg" /\ sres' = sres
    /\ UNCHANGED <<apiKey, sargs, fcCalls, ddgCalls, fcReq, fcResp, fcOut, ddgReq, ddgOut>>

\* ddg = ddg_search(...); return ddg
SearchAllFallback(Resps) ==
    /\ spc = "call_ddg"
    /\ \E resp \in Resps :
          LET ddg == ddg_search(resp, sargs.num_results)
          IN  /\ ddgOut' = ddg
              /\ sres' = Ret(ddg)
    /\ ddgReq' = SiteQuery(sargs.query, sargs.site)
    /\ ddgCalls' = ddgCalls + 1
    /\ spc' = "returned"
    /\ UNCHANGED <<apiKey, sargs, fcCalls, fcReq, fcResp, fcOut>>

\* ================================================================ fetching

\* the most scrape_website calls the concurrent-fetch specification starts
MaxFetches == 3
\* the number of threads that fetch concurrently in that specification
NumThreads == 2

Threads == 1..NumThreads

WS == {" ", "\t", "\n"}

RECURSIVE LStrip(_)
LStrip(u) == IF u # <<>> /\ Head(u) \in WS THEN LStrip(Tail(u)) ELSE u

RECURSIVE RStrip(_)
RStrip(u) == IF u # <<>> /\ u[Len(u)] \in WS THEN RStrip(SubSeq(u, 1, Len(u) - 1)) ELSE u

\* str.strip()
Strip(u) == RStrip(LStrip(u))

HasScheme(u) == StartsWith(u, HTTP) \/ StartsWith(u, HTTPS)

\* a normalize_url that does not strip its input
normalize_url_NoStrip(url) ==
    IF url = <<>> THEN JNull
    ELSE IF ~HasScheme(url) THEN JStr(HTTPS \o url)
    ELSE JStr(url)

\* normalize_url(url): None, or the stripped url with https:// put before it
\* when it starts with neither http:// nor https://
normalize_url(url) ==
    IF url = <<>> THEN JNull
    ELSE LET u == Strip(url)
         IN  IF u = <<>> THEN JNull
             ELSE IF ~StartsWith(u, HTTP) /\ ~StartsWith(u, HTTPS) THEN JStr(HTTPS \o u)
             ELSE JStr(u)

HostChars == {"a", "b", "c", "e", "l", "m", "o", "p", "x", "."}

\* validators.url(url_norm), the optional third-party check, by what it
\* requires of the strings met here: a scheme, then a host that starts with a
\* host character, and no whitespace anywhere
ValidatorsUrl(u) ==
    LET rest == IF StartsWith(u, HTTPS) THEN SubSeq(u, Len(HTTPS) + 1, Len(u))
                ELSE IF StartsWith(u, HTTP) THEN SubSeq(u, Len(HTTP) + 1, Len(u))
                ELSE <<>>
    IN  /\ rest # <<>>
        /\ rest[1] \in HostChars \ {"."}
        /\ \A i \in 1..Len(rest) : rest[i] \in HostChars \cup {"/"}

\* an outcome whose value is a Python value: returned, or an exception
RaiseV == [kind |-> "raise", val |-> JNull]

\* data.get("results", [{}])[0].get("html"), for a truthy results value
ResultsHtml(r) ==
    IF r.t = "list" /\ r.l[1].t = "dict" THEN Ret(Get(r.l[1], "html")) ELSE RaiseV

\* the body of the try block of scrape_with_firecrawl
ScrapeTry(resp) ==
    IF resp.net # "ok" THEN RaiseV
    ELSE IF resp.status >= 400 /\ resp.status < 600 THEN RaiseV
    ELSE IF ~resp.json THEN RaiseV
    ELSE IF resp.body.t # "dict" THEN RaiseV
    ELSE LET data == resp.body
             html == Get(data, "html")
             content == Get(data, "content")
             results == Get(data, "results")
         IN  IF Truthy(html) THEN Ret(html)
             ELSE IF Truthy(content) THEN Ret(content)
             ELSE IF Truthy(results) THEN ResultsHtml(results)
             ELSE Ret(JNull)

\* a scrape_with_firecrawl whose try block has no except
scrape_with_firecrawl_NoExcept(key, resp) ==
    IF ~key THEN Ret(JNull) ELSE ScrapeTry(resp)

\* scrape_with_firecrawl(url) on the response resp of the API
scrape_with_firecrawl(key, resp) ==
    IF ~key THEN Ret(JNull)
    ELSE LET r == ScrapeTry(resp)
         IN  IF r.kind = "raise" THEN Ret(JNull) ELSE r

\* ---------------------------------------------- the fetch collaborators

\* HTML texts are sequences of elements; the empty text is <<>>. An element
\* has its tag, the attributes rel, href, property, name, content and type,
\* its text (.string, <<>> when it has none) and, for a script, what
\* json.loads makes of its text: "bad" when it raises, "ok" and the value
Element(tag, rel, href) ==
    [ tag |-> tag, rel |-> rel, href |-> href, property |-> "", name |-> "",
      content |-> <<>>, type |-> "", text |-> <<>>, parse |-> "", json |-> JNull ]
DocPlain == << Element("title", "", <<>>) >>
DocCanon == << Element("title", "", <<>>), Element("link", "canonical", U3) >>
NoHtml == <<>>

HtmlFields == { JNull, JStr(NoHtml), JStr(DocPlain) }

ResultsFields ==
    { JNull,
      JList(<<>>),
      JList(<<JDict(<<>>)>>),
      JList(<<JDict(<<Key("html", JStr(DocCanon))>>)>>),
      JList(<<JDict(<<Key("html", JStr(NoHtml))>>)>>),
      JList(<<JStr(DocPlain)>>),
      JDict(<<Key("html", JStr(DocPlain))>>),
      JStr(DocPlain) }

\* a JSON object with the given values under html, content and results; a
\* null stands for the key being absent
ScrapeBody(h, c, r) ==
    JDict(SelectSeq(<<Key("html", h), Key("content", c), Key("results", r)>>,
                    LAMBDA e : e.t # "null"))

ScrapeBodies ==
    { JNull, JList(<<>>), JStr(DocPlain) }
    \cup { ScrapeBody(h, c, r) : h \in HtmlFields, c \in {JNull, JStr(DocCanon)}, r \in ResultsFields }
    \cup { JDict(<<Key("html", JNull), Key("error", JStr(DocPlain))>>) }

NoScrapeResp == [net |-> "none", status |-> 0, json |-> FALSE, body |-> JNull]

ScrapeResponses ==
    { [net |-> "error", status |-> 0, json |-> FALSE, body |-> JNull] }
    \cup { [net |-> "ok", status |-> st, json |-> FALSE, body |-> JNull] : st \in {200, 404} }
    \cup { [net |-> "ok", status |-> st, json |-> TRUE, body |-> JDict(<<Key("html", JStr(DocPlain))>>)] :
             st \in {201, 304, 401, 429, 500} }
    \cup { [net |-> "ok", status |-> 200, json |-> TRUE, body |-> b] : b \in ScrapeBodies }

\* the responses of the specifications that run many fetches
FewScrapeResponses ==
    { [net |-> "error", status |-> 0, json |-> FALSE, body |-> JNull],
      [net |-> "ok", status |-> 200, json |-> TRUE, body |-> JDict(<<Key("html", JStr(DocPlain))>>)] }

PageSources == { NoHtml, DocPlain, DocCanon }
FewPageSources == { NoHtml, DocPlain }

EXAMPLE == <<"e", "x", "a", "m", "p", "l", "e", ".", "c", "o", "m", "/", "x">>

UrlCores ==
    { <<>>, EXAMPLE, U1, U2, HTTP,
      <<"H", "T", "T", "P", ":", "/", "/", "a">>,
      <<"a", " ", "b">> }

UrlPads == { <<>>, <<" ">>, <<"\t", "\n">> }

\* the strings handed to scrape_website
UrlInputs == { l \o c \o r : l \in UrlPads, c \in UrlCores, r \in UrlPads }

\* ------------------------------------------------------------ fetch state

VARIABLES
    validators,  \* the optional validators module is installed
    fetch,       \* per thread: the scrape_website call it runs, see FetchIdle
    browsers,    \* the browser instances that are running
    launched,    \* the number of browser instances created so far
    started      \* the number of scrape_website calls started by StartFetch

fvars == <<validators, fetch, browsers, launched, started>>

\* pc          position of the call
\* url         the argument of scrape_website
\* url_norm    normalize_url(url)
\* apiCalls    invocations of scrape_with_firecrawl by this call, apiUrl its
\*             argument, apiResp the API's response, apiOut what it did
\* selCalls    invocations of scrape_with_selenium by this call, navUrl its
\*             argument, driver the instance it created (0: none), pending
\*             what the try block did, to take effect after the finally,
\*             quitRaised whether driver.quit() raised
\* res         what scrape_website did
FetchIdle ==
    [ pc |-> "idle", url |-> <<>>, url_norm |-> JNull,
      apiCalls |-> 0, apiUrl |-> <<>>, apiResp |-> NoScrapeResp, apiOut |-> Ret(JNull),
      selCalls |-> 0, navUrl |-> <<>>, driver |-> 0, pending |-> Ret(JNull),
      quitRaised |-> FALSE, res |-> Ret(JNull) ]

FetchEnter(url) == [FetchIdle EXCEPT !.pc = "enter", !.url = url]

\* ----------------------------------------------------------- scrape_website

\* lines 83..93: the checks before any strategy runs
ScrapeValidate(t) ==
    /\ fetch[t].pc = "enter"
    /\ LET url == fetch[t].url
           url_norm == normalize_url(url)
       IN  IF url = <<>>
           THEN fetch' = [fetch EXCEPT ![t].pc = "raised", ![t].res = RaiseV]
           ELSE IF ~Truthy(url_norm)
           THEN fetch' = [fetch EXCEPT ![t].pc = "raised", ![t].res = RaiseV,
                                       ![t].url_norm = url_norm]
           ELSE IF validators /\ ~ValidatorsUrl(url_norm.s)
           THEN fetch' = [fetch EXCEPT ![t].pc = "raised", ![t].res = RaiseV,
                                       ![t].url_norm = url_norm]
           ELSE fetch' = [fetch EXCEPT ![t].pc = "call_api", ![t].url_norm = url_norm]
    /\ UNCHANGED <<validators, browsers, launched, started>>

\* a scrape_website that launches the browser whatever the API strategy gave
AfterFirecrawl_AlwaysBrowser(f, out) ==
    IF out.kind = "raise"
    THEN [f EXCEPT !.pc = "raised", !.res = RaiseV]
    ELSE [f EXCEPT !.pc = "sel_start"]

\* lines 96..104: what follows html = scrape_with_firecrawl(url_norm)
AfterFirecrawl(f, out) ==
    IF out.kind = "raise"
    THEN [f EXCEPT !.pc = "raised", !.res = RaiseV]
    ELSE IF Truthy(out.val)
    THEN [f EXCEPT !.pc = "returned", !.res = Ret(out.val)]
    ELSE [f EXCEPT !.pc = "sel_start"]

\* html = scrape_with_firecrawl(url_norm); if html: return html
ScrapeCallFirecrawl(t, Resps) ==
    /\ fetch[t].pc = "call_api"
    /\ \E resp \in Resps :
          LET out == scrape_with_firecrawl(apiKey, resp)
              f == [fetch[t] EXCEPT !.apiCalls = @ + 1, !.apiUrl = fetch[t].url_norm.s,
                                    !.apiResp = resp, !.apiOut = out]
          IN  fetch' = [fetch EXCEPT ![t] = AfterFirecrawl(f, out)]
    /\ UNCHANGED <<validators, browsers, launched, started>>

\* ----------------------------------------------------- scrape_with_selenium

\* html = scrape_with_selenium(url_norm), up to driver = webdriver.Chrome(...):
\* a new instance runs, or the constructor raises and there is none
SeleniumStart(t) ==
    /\ fetch[t].pc = "sel_start"
    /\ \/ /\ launched' = launched + 1
          /\ browsers' = browsers \cup {launched + 1}
          /\ fetch' = [fetch EXCEPT ![t].pc = "sel_get", ![t].selCalls = @ + 1,
                                    ![t].navUrl = fetch[t].url_norm.s,
                                    ![t].driver = launched + 1]
       \/ /\ fetch' = [fetch EXCEPT ![t].pc = "raised", ![t].selCalls = @ + 1,
                                    ![t].navUrl = fetch[t].url_norm.s,
                                    ![t].res = RaiseV]
          /\ UNCHANGED <<browsers, launched>>
    /\ UNCHANGED <<validators, started>>

\* driver.get(url); time.sleep(wait_seconds)
SeleniumGet(t) ==
    /\ fetch[t].pc = "sel_get"
    /\ \/ fetch' = [fetch EXCEPT ![t].pc = "sel_source"]
       \/ fetch' = [fetch EXCEPT ![t].pc = "sel_quit", ![t].pending = RaiseV]
    /\ UNCHANGED <<validators, browsers, launched, started>>

\* return driver.page_source
SeleniumPageSource(t, Sources) ==
    /\ fetch[t].pc = "sel_source"
    /\ \/ \E src \in Sources :
             fetch' = [fetch EXCEPT ![t].pc = "sel_quit", ![t].pending = Ret(JStr(src))]
       \/ fetch' = [fetch EXCEPT ![t].pc = "sel_quit", ![t].pending = RaiseV]
    /\ UNCHANGED <<validators, browsers, launched, started>>

\* a scrape_with_selenium without its finally block: an exception of the try
\* block leaves the function with the instance running
QuitOnExit_OnlyOnReturn(running, f) ==
    IF f.pending.kind = "raise" THEN running ELSE running \ {f.driver}

\* finally: driver.quit(), which ends the instance (Selenium's quit stops the
\* driver service in a finally of its own, so also when it raises)
QuitOnExit(running, f) == running \ {f.driver}

\* the finally block, in which an exception of quit() is swallowed, then the
\* return or the exception of the try block, which is also scrape_website's
SeleniumQuit(t) ==
    /\ fetch[t].pc = "sel_quit"
    /\ browsers' = QuitOnExit(browsers, fetch[t])
    /\ \E raised \in BOOLEAN :
          fetch' = [fetch EXCEPT ![t].pc = IF fetch[t].pending.kind = "raise"
                                          THEN "raised" ELSE "returned",
                                ![t].quitRaised = raised,
                                ![t].res = fetch[t].pending]
    /\ UNCHANGED <<validators, launched, started>>

\* a thread of the concurrent-fetch specification calls scrape_website
StartFetch(t) ==
    /\ fetch[t].pc \in {"idle", "returned", "raised"}
    /\ started < MaxFetches
    /\ started' = started + 1
    /\ \E url \in {U1, EXAMPLE} : fetch' = [fetch EXCEPT ![t] = FetchEnter(url)]
    /\ UNCHANGED <<validators, browsers, launched>>

\* ============================================================== discovery

\* fetch_products_via_scrape(query, num_results=6)
DefaultNumResults == 6

RECURSIVE FirstSlashFrom(_, _)
\* the index of the first "/" of u at or after i, Len(u) + 1 when there is none
FirstSlashFrom(u, i) ==
    IF i > Len(u) \/ u[i] = "/" THEN i ELSE FirstSlashFrom(u, i + 1)

RECURSIVE LastSlash(_, _)
\* the index of the last "/" of u at or before i, 0 when there is none
LastSlash(u, i) ==
    IF i = 0 \/ u[i] = "/" THEN i ELSE LastSlash(u, i - 1)

SchemeLen(u) == IF StartsWith(u, HTTPS) THEN Len(HTTPS) ELSE IF StartsWith(u, HTTP) THEN Len(HTTP) ELSE 0

\* urljoin(base, href): an href with a scheme replaces the base, one that
\* starts with "/" replaces its path, any other replaces the last segment of
\* its path; a base without scheme has no host and is all path
urljoin(base, href) ==
    LET pathAt == IF SchemeLen(base) = 0 THEN 1
                  ELSE FirstSlashFrom(base, SchemeLen(base) + 1)
        origin == SubSeq(base, 1, pathAt - 1)
        last == LastSlash(base, Len(base))
    IN  IF HasScheme(href) THEN href
        ELSE IF StartsWith(href, SLASH) THEN origin \o href
        ELSE IF pathAt > Len(base) THEN origin \o SLASH \o href
        ELSE SubSeq(base, 1, last) \o href

RECURSIVE FindCanonical(_, _)
\* soup.find("link", rel="canonical"): the first such element, its index
FindCanonical(els, i) ==
    IF i > Len(els) THEN 0
    ELSE IF els[i].tag = "link" /\ els[i].rel = "canonical" THEN i
    ELSE FindCanonical(els, i + 1)

\* ------------------------------------------------------ parse_product_page

Meta(property, name, content) ==
    [Element("meta", "", <<>>) EXCEPT !.property = property, !.name = name, !.content = content]
Title(text) == [Element("title", "", <<>>) EXCEPT !.text = text]
\* <script type="application/ld+json"> whose text is the JSON value json
LdJson(json) ==
    [Element("script", "", <<>>) EXCEPT !.type = "application/ld+json", !.text = <<"j">>,
                                        !.parse = "ok", !.json = json]
\* one whose text is not JSON
LdJsonBad ==
    [Element("script", "", <<>>) EXCEPT !.type = "application/ld+json", !.text = <<"{">>,
                                        !.parse = "bad"]
\* one without text
LdJsonEmpty == [Element("script", "", <<>>) EXCEPT !.type = "application/ld+json"]

PRODUCT == <<"p", "r", "o", "d", "u", "c", "t">>

\* str.lower, on the letters of the type names
LowerChar(c) ==
    CASE c = "P" -> "p" [] c = "R" -> "r" [] c = "O" -> "o" [] c = "D" -> "d"
      [] c = "U" -> "u" [] c = "C" -> "c" [] c = "T" -> "t" [] OTHER -> c
Lower(s) == [i \in 1..Len(s) |-> LowerChar(s[i])]

\* it_type and str(it_type).lower() == "product": str() of a str or a number
\* is its text, that of a list or a dict is never "product"
ProductTyped(it_type) ==
    Truthy(it_type) /\ it_type.t \in {"str", "num"} /\ Lower(it_type.s) = PRODUCT

RECURSIVE FindTag(_, _, _)
\* soup.find(tag): the index of the first such element, 0 when there is none
FindTag(els, tag, i) ==
    IF i > Len(els) THEN 0
    ELSE IF els[i].tag = tag THEN i
    ELSE FindTag(els, tag, i + 1)

RECURSIVE FindMetaBy(_, _, _, _)
\* soup.find("meta", property=p) for attr "property", and
\* soup.find("meta", attrs={"name": p}) for attr "name"
FindMetaBy(els, attr, p, i) ==
    IF i > Len(els) THEN 0
    ELSE IF els[i].tag = "meta" /\ (IF attr = "property" THEN els[i].property ELSE els[i].name) = p
         THEN i
    ELSE FindMetaBy(els, attr, p, i + 1)

RECURSIVE meta_prop(_, _, _)
\* meta_prop(prop_names), from its j-th name on: the stripped content of the
\* first name whose tag has a content
meta_prop(els, prop_names, j) ==
    IF j > Len(prop_names) THEN JNull
    ELSE LET byProp == FindMetaBy(els, "property", prop_names[j], 1)
             tag == IF byProp # 0 THEN byProp ELSE FindMetaBy(els, "name", prop_names[j], 1)
         IN  IF tag # 0 /\ els[tag].content # <<>>
             THEN JStr(Strip(els[tag].content))
             ELSE meta_prop(els, prop_names, j + 1)

TitleNames == <<"og:title", "twitter:title", "title">>
ImageNames == <<"og:image", "twitter:image", "image">>
PriceNames == <<"product:price:amount", "og:price:amount", "price", "twitter:data1">>

\* soup.title.string.strip() if soup.title and soup.title.string else None
title_tag(els) ==
    LET i == FindTag(els, "title", 1)
    IN  IF i # 0 /\ els[i].text # <<>> THEN JStr(Strip(els[i].text)) ELSE JNull

\* offers.get("price") or (offers.get("priceSpecification") or {}).get("price"):
\* the second operand is evaluated when the first is falsy, and raises when
\* priceSpecification is truthy and no dict
OfferPrice(offers) ==
    LET spec == Or(Get(offers, "priceSpecification"), JDict(<<>>))
    IN  IF Truthy(Get(offers, "price")) THEN Ret(Get(offers, "price"))
        ELSE IF spec.t # "dict" THEN RaiseV
        ELSE Ret(Get(spec, "price"))

\* lines 296..314, the body of the loop for a Product-typed item: name, price
\* and image after it, and ctl: "break", "next" item, or "raise" (the
\* assignments made before the exception stay)
ProductItem(it, st) ==
    LET name == IF ~Truthy(st.name) THEN Get(it, "name") ELSE st.name
        given == Get(it, "offers")
        offers == IF given.t = "list" THEN given.l[1] ELSE given
        price_val == OfferPrice(offers)
        price == IF Truthy(price_val.val) THEN JStr(price_val.val.s) ELSE st.price
        currency == Or(Get(offers, "priceCurrency"), Get(offers, "currency"))
        img == Get(it, "image")
    IN  IF Truthy(given) /\ (offers.t # "dict" \/ price_val.kind = "raise")
        THEN [name |-> name, price |-> st.price, image |-> st.image, ctl |-> "raise"]
        ELSE [ name |-> name,
               price |-> IF ~Truthy(given) THEN st.price
                         ELSE IF Truthy(currency) /\ Truthy(price)
                         THEN JStr(price.s \o <<" ">> \o currency.s)
                         ELSE price,
               image |-> IF ~Truthy(img) THEN st.image
                         ELSE IF img.t = "list" THEN img.l[1] ELSE img,
               ctl |-> IF Truthy(name) THEN "break" ELSE "next" ]

\* lines 292..314, the body of the loop over the items of one script
ScanItem(it, st) ==
    IF it.t # "dict" THEN [st EXCEPT !.ctl = "raise"]
    ELSE LET given == Or(Get(it, "@type"), Get(it, "type"))
         IN  IF given.t = "list" /\ given.l = <<>> THEN [st EXCEPT !.ctl = "raise"]
             ELSE IF ProductTyped(IF given.t = "list" THEN given.l[1] ELSE given)
             THEN ProductItem(it, st)
             ELSE [st EXCEPT !.ctl = "next"]

RECURSIVE ScanItems(_, _, _)
\* after the j-th item: the next one, unless it broke the loop or raised
AfterItem(items, j, after) ==
    IF after.ctl = "next" THEN ScanItems(items, j + 1, after) ELSE after

\* for it in items, from the j-th on, until a break or an exception
ScanItems(items, j, st) ==
    IF j > Len(items) THEN [st EXCEPT !.ctl = "next"]
    ELSE AfterItem(items, j, ScanItem(items[j], st))

\* items = data if isinstance(data, list) else [data]
ItemsOf(data) == IF data.t = "list" THEN data.l ELSE <<data>>

RECURSIVE ScanScripts(_, _, _)
\* after the items of the i-th element: the next script, unless they raised
AfterScript(els, i, after) ==
    IF after.ctl = "raise" THEN after ELSE ScanScripts(els, i + 1, after)

\* lines 280..317: for script in soup.find_all("script", type=ld+json), from
\* the i-th element on. A script without text or with text that is no JSON
\* is passed over; the break leaves the loop over the items only, so the
\* next script is scanned; an exception leaves the whole scan
ScanScripts(els, i, st) ==
    IF i > Len(els) THEN st
    ELSE IF ~(els[i].tag = "script" /\ els[i].type = "application/ld+json") THEN ScanScripts(els, i + 1, st)
    ELSE IF els[i].text = <<>> \/ els[i].parse # "ok" THEN ScanScripts(els, i + 1, st)
    ELSE AfterScript(els, i, ScanItems(ItemsOf(els[i].json), 1, st))

\* name = None; price = None; image = None
ScanStart == [name |-> JNull, price |-> JNull, image |-> JNull, ctl |-> "next"]

\* the record of the outer except branch
ParseFailed(url) ==
    [ name |-> JNull, price |-> JNull, link |-> url, image |-> JNull,
      source_url |-> url, raw_title |-> JNull ]

\* BeautifulSoup(html, "html.parser") raises when html is no text
SoupRaises(html) == html.t # "str"

\* canonical: the href of the first canonical link joined to url, or url
CanonicalLink(els, c, url) ==
    IF c # 0 /\ els[c].href # <<>> THEN urljoin(url, els[c].href) ELSE url

\* if isinstance(image, list): image = image[0] if image else None
FirstImage(image) ==
    IF image.t = "list" THEN (IF image.l # <<>> THEN image.l[1] ELSE JNull) ELSE image

\* lines 319..336: what the scan left open comes from the metas and the
\* title, and the record is returned
ParseRecord(scan, og_title, og_image, og_price, title, canonical, url) ==
    [ name |-> IF Truthy(scan.name) THEN scan.name ELSE Or(og_title, title),
      price |-> IF Truthy(scan.price) THEN scan.price ELSE og_price,
      link |-> canonical,
      image |-> FirstImage(IF Truthy(scan.image) THEN scan.image ELSE og_image),
      source_url |-> url,
      raw_title |-> title ]

\* lines 253..336, the body of the outer try for an html that is text
ParseBody(els, url) ==
    ParseRecord(ScanScripts(els, 1, ScanStart),
                meta_prop(els, TitleNames, 1), meta_prop(els, ImageNames, 1),
                meta_prop(els, PriceNames, 1), title_tag(els),
                CanonicalLink(els, FindCanonical(els, 1), url), url)

\* a parse_product_page whose except branch forgets the input URL
parse_product_page_NoDefault(html, url) ==
    IF SoupRaises(html) THEN [ParseFailed(url) EXCEPT !.link = <<>>, !.source_url = <<>>]
    ELSE ParseBody(html.s, url)

\* parse_product_page(html, url): the record of the try block, or that of the
\* except branch
parse_product_page(html, url) ==
    IF SoupRaises(html) THEN ParseFailed(url)
    ELSE ParseBody(html.s, url)

Url(c) == HTTP \o <<c>>
BLANK == <<" ", " ">>

UrlItem(u) == JDict(<<Key("url", JStr(u))>>)

\* the search API's answers in the discovery specification: a failure, a body
\* that makes firecrawl_search raise, result arrays of 7 URLs, of 3 with a
\* blank and a repeated URL, of one URL without scheme, and an empty one
DiscoverSearchResponses ==
    { [net |-> "error", status |-> 0, json |-> FALSE, body |-> JNull],
      [net |-> "ok", status |-> 200, json |-> TRUE, body |-> JList(<<>>)] }
    \cup { [net |-> "ok", status |-> 200, json |-> TRUE, body |-> JDict(<<Key("results", JList(l))>>)] :
             l \in { <<UrlItem(Url("a")), UrlItem(Url("b")), UrlItem(Url("c")), UrlItem(Url("d")),
                       UrlItem(Url("e")), UrlItem(Url("f")), UrlItem(Url("g"))>>,
                     <<UrlItem(Url("a")), UrlItem(BLANK), UrlItem(Url("a"))>>,
                     <<UrlItem(EXAMPLE)>>,
                     <<>> } }

\* a page whose canonical link is relative
DocRel == << Element("link", "canonical", <<"/", "p">>) >>
\* driver.page_source in the discovery specification
DiscoverPageSources == { NoHtml, DocRel }

DiscoverDdgResponses ==
    { [ok |-> FALSE, anchors |-> <<>>],
      [ok |-> TRUE, anchors |-> <<U1, REL, U2>>] }

VARIABLES
    dpc,         \* fetch_products_via_scrape: position of the call
    dargs,       \* its arguments [query, num_results]
    candidates,  \* the list search_all gave, [] when it raised
    idx,         \* the loop's position in candidates, from 1
    products,    \* the records appended so far
    fetched,     \* for each candidate tried so far: what scrape_website did,
                 \* and the URL it fetched (<<>> when it fetched nothing)
    dres         \* what fetch_products_via_scrape did

dvars == <<dpc, dargs, candidates, idx, products, fetched, dres>>

DiscoverIdle ==
    /\ dpc = "idle"
    /\ dargs = [query |-> <<>>, num_results |-> 0]
    /\ candidates = <<>>
    /\ idx = 0
    /\ products = <<>>
    /\ fetched = <<>>
    /\ dres = Ret(<<>>)

\* candidates = await asyncio.to_thread(search_all, query, "", num_results)
DiscoverCallSearch ==
    /\ dpc = "start"
    /\ SearchAllEnter(dargs.query, <<>>, dargs.num_results)
    /\ dpc' = "searching"
    /\ UNCHANGED <<apiKey, dargs, candidates, idx, products, fetched, dres>>

\* a fetch_products_via_scrape without the try around search_all
DiscoverAfterSearch_NoExcept ==
    /\ dpc = "searching"
    /\ spc \in {"returned", "raised"}
    /\ IF spc = "raised"
       THEN dpc' = "raised" /\ dres' = Raise /\ UNCHANGED candidates
       ELSE dpc' = "loop" /\ candidates' = sres.val /\ UNCHANGED dres
    /\ idx' = 1
    /\ UNCHANGED <<dargs, products, fetched>>

\* search_all is over: its list, or [] in the except branch; products = []
DiscoverAfterSearch ==
    /\ dpc = "searching"
    /\ spc \in {"returned", "raised"}
    /\ candidates' = IF spc = "raised" THEN <<>> ELSE sres.val
    /\ idx' = 1
    /\ dpc' = "loop"
    /\ UNCHANGED <<dargs, products, fetched, dres>>

\* for url in candidates: scraped = await asyncio.to_thread(scrape_website, url);
\* after the last candidate, return products
DiscoverNextCandidate ==
    /\ dpc = "loop"
    /\ IF idx > Len(candidates)
       THEN /\ dpc' = "done"
            /\ dres' = Ret(products)
            /\ UNCHANGED fetch
       ELSE /\ dpc' = "scraping"
            /\ fetch' = [fetch EXCEPT ![1] = FetchEnter(candidates[idx])]
            /\ UNCHANGED dres
    /\ UNCHANGED <<validators, browsers, launched, started,
                   dargs, candidates, idx, products, fetched>>

\* lines 354..357: the HTML of what scrape_website returned
ScrapedHtml(scraped) ==
    IF scraped.t = "dict" THEN Or(Get(scraped, "html"), JStr(<<>>))
    ELSE Or(scraped, JStr(<<>>))

\* lines 360..363: the record of one fetched page
LinkOrUrl(parsed, url) ==
    IF parsed.link = <<>> THEN [parsed EXCEPT !.link = url] ELSE parsed
ProductOf(html, url) == LinkOrUrl(parse_product_page(html, url), url)

\* a loop body that gives up the remaining candidates when one fails
LoopBody_StopOnFailure(out, url, prods, i) ==
    IF out.kind = "raise" \/ ~Truthy(ScrapedHtml(out.val))
    THEN [products |-> prods, idx |-> Len(candidates) + 1]
    ELSE [products |-> Append(prods, ProductOf(ScrapedHtml(out.val), url)), idx |-> i + 1]

\* lines 352..366 after scrape_website: an exception and an empty HTML skip
\* the candidate, anything else appends its record; then the next candidate
LoopBody(out, url, prods, i) ==
    IF out.kind = "raise" THEN [products |-> prods, idx |-> i + 1]
    ELSE IF ~Truthy(ScrapedHtml(out.val)) THEN [products |-> prods, idx |-> i + 1]
    ELSE [products |-> Append(prods, ProductOf(ScrapedHtml(out.val), url)), idx |-> i + 1]

\* scrape_website is over for candidates[idx]
DiscoverAfterScrape ==
    /\ dpc = "scraping"
    /\ fetch[1].pc \in {"returned", "raised"}
    /\ LET after == LoopBody(fetch[1].res, candidates[idx], products, idx)
       IN  /\ products' = after.products
           /\ idx' = after.idx
    /\ fetched' = Append(fetched, [ url |-> candidates[idx], out |-> fetch[1].res,
                                     fetchedUrl |-> IF fetch[1].selCalls > 0 THEN fetch[1].navUrl
                                                    ELSE fetch[1].apiUrl ])
    /\ fetch' = [fetch EXCEPT ![1] = FetchIdle]
    /\ dpc' = "loop"
    /\ UNCHANGED <<validators, browsers, launched, started, dargs, candidates, dres>>

\* ---- parse_product_page on its own

\* the longest HTML text handed to parse_product_page, in elements
MaxEls == 3

W == <<"W">>
Z == <<"Z">>
USD == <<"U", "S", "D">>
PRICE == <<"1", "9", ".", "9", "9">>
ProductType == JStr(<<"P", "r", "o", "d", "u", "c", "t">>)

\* the Product of the first example: a name, one offer with price and currency
WidgetBlock ==
    JDict(<<Key("@type", ProductType), Key("name", JStr(W)),
            Key("offers", JDict(<<Key("price", JStr(PRICE)), Key("priceCurrency", JStr(USD))>>)),
            Key("image", JStr(<<"i">>))>>)

\* another Product: its type a list in upper case, its offers a list, the
\* price a number under priceSpecification, the currency under currency
OtherBlock ==
    JDict(<<Key("type", JList(<<JStr(<<"P", "R", "O", "D", "U", "C", "T">>)>>)), Key("name", JStr(Z)),
            Key("offers", JList(<<JDict(<<Key("priceSpecification", JDict(<<Key("price", JNum(<<"5">>))>>)),
                                          Key("currency", JStr(<<"E">>))>>)>>)),
            Key("image", JList(<<JStr(<<"j">>)>>))>>)

\* a Product without name but with an offer, then a Product with a name whose
\* offer has a currency and no price
UnnamedThenNamed ==
    JList(<<JDict(<<Key("@type", ProductType),
                    Key("offers", JDict(<<Key("price", JStr(PRICE)), Key("priceCurrency", JStr(USD))>>))>>),
            JDict(<<Key("@type", ProductType), Key("name", JStr(W)),
                    Key("offers", JDict(<<Key("priceCurrency", JStr(USD))>>))>>)>>)

\* the elements of the pages
PageElements ==
    { Title(<<"T", " ">>),
      Element("link", "canonical", <<"/", "p">>),
      Element("p", "", <<>>),
      Meta("og:title", "", <<"G">>),
      Meta("og:title", "", <<" ">>),
      Meta("", "twitter:title", <<"X">>),
      Meta("", "price", <<"9">>),
      Meta("og:image", "", <<"m">>),
      LdJsonBad,
      LdJsonEmpty,
      LdJson(JStr(<<"x">>)),
      LdJson(WidgetBlock),
      LdJson(OtherBlock),
      LdJson(UnnamedThenNamed),
      LdJson(JDict(<<Key("@type", JStr(<<"O", "f", "f", "e", "r">>)), Key("name", JStr(<<"o">>))>>)) }

\* the html arguments: the texts of at most MaxEls elements, and None
Pages == { JStr(els) : els \in SeqsUpTo(PageElements, MaxEls) } \cup { JNull }

\* the url arguments
PageUrl == HTTPS \o <<"s", "/", "a">>
PageUrls == { PageUrl }

VARIABLES
    ppc,    \* parse_product_page: position of the call
    phtml,  \* its argument html
    purl,   \* its argument url
    pres    \* what it did

pvars == <<ppc, phtml, purl, pres>>

ParseIdle ==
    /\ ppc = "idle"
    /\ phtml = JNull
    /\ purl = <<>>
    /\ pres = Ret(ParseFailed(<<>>))

\* parse_product_page(html, url), which returns whatever its try block does
ParseCall ==
    /\ ppc = "start"
    /\ pres' = Ret(parse_product_page(phtml, purl))
    /\ ppc' = "done"
    /\ UNCHANGED <<phtml, purl>>

\* ===================================================================== chat

\* the most turns of the chat loop
MaxTurns == 44

\* if len(messages) > 40: messages = [messages[0]] + messages[-20:]
HistoryLimit == 40
HistoryKeep == 20
\* elif isinstance(products, str): if len(products) < 10
ShortText == 10

\* messages[0], and the user message of the n-th turn; a message stands for
\* its content by the number of the turn that appended it
SystemMessage == [role |-> "system", n |-> 0]
UserMessage(n) == [role |-> "user", n |-> n]

\* a loop that never cuts the history
TrimHistory_Never(msgs) == msgs

\* lines 414..415
TrimHistory(msgs) ==
    IF Len(msgs) > HistoryLimit
    THEN <<msgs[1]>> \o SubSeq(msgs, Len(msgs) - HistoryKeep + 1, Len(msgs))
    ELSE msgs

\* FirecrawlHTTPFallback.query: the parsed body of a 200 response, its text
\* under raw_text when it is no JSON; RuntimeError for any other status, and
\* the client's exception when the request fails
query(resp) ==
    IF resp.net # "ok" THEN RaiseV
    ELSE IF resp.status # 200 THEN RaiseV
    ELSE IF ~resp.json THEN Ret(JDict(<<Key("raw_text", resp.body)>>))
    ELSE Ret(resp.body)

ListKeys == {"items", "results", "products", "hits", "data"}

\* a scrape step that always runs
need_scrape_Always(prods) == TRUE

\* lines 446..462: need_scrape for the result so far
need_scrape(prods) ==
    IF ~Truthy(prods) THEN TRUE
    ELSE IF prods.t = "dict"
    THEN ~\E key \in ListKeys : Get(prods, key).t = "list" /\ Truthy(Get(prods, key))
    ELSE IF prods.t = "list" THEN ~Truthy(prods)
    ELSE IF prods.t = "str" THEN Len(prods.s) < ShortText
    ELSE FALSE

NineChars == <<"a", "b", "c", "d", "e", "f", "g", "h", "i">>
TenChars == NineChars \o <<"j">>
OneProduct == JList(<<JDict(<<Key("name", JStr(W))>>)>>)

\* what a product source can give
SourceValues ==
    { JNull, JStr(<<>>), JStr(NineChars), JStr(TenChars), JNum(<<"5">>),
      JList(<<>>), OneProduct,
      JDict(<<>>),
      JDict(<<Key("hits", OneProduct)>>),
      JDict(<<Key("items", JList(<<>>)), Key("data", JStr(TenChars))>>),
      JDict(<<Key("error", JStr(TenChars))>>) }

\* what calling the MCP tool does
ToolOutcomes == { Ret(v) : v \in SourceValues } \cup { RaiseV }

\* the responses of /v2/query
QueryResponses ==
    { [net |-> "error", status |-> 0, json |-> FALSE, body |-> JNull],
      [net |-> "ok", status |-> 500, json |-> TRUE, body |-> OneProduct],
      [net |-> "ok", status |-> 200, json |-> FALSE, body |-> JStr(TenChars)] }
    \cup { [net |-> "ok", status |-> 200, json |-> TRUE, body |-> v] : v \in SourceValues }

\* what fetch_products_via_scrape returns: a list of records
ScrapeResults == { JList(<<>>), OneProduct }

NoCall == [kind |-> "none", val |-> JNull]

VARIABLES
    cpc,        \* the chat loop: its position
    tool,       \* firecrawl_tool is not None
    turn,       \* the number of inputs other than quit read so far
    messages,   \* the message history
    cproducts,  \* products, in a product query
    called,     \* the sources called for this product query, in order
    toolOut,    \* what the MCP tool did for this query, NoCall without call
    before,     \* products before the scrape step
    scraped     \* what fetch_products_via_scrape returned, NoCall without call

cvars == <<cpc, tool, turn, messages, cproducts, called, toolOut, before, scraped>>

ChatIdle ==
    /\ cpc = "off"
    /\ tool = FALSE
    /\ turn = 0
    /\ messages = <<>>
    /\ cproducts = JNull
    /\ called = <<>>
    /\ toolOut = NoCall
    /\ before = JNull
    /\ scraped = NoCall

\* lines 407..418 and 486..487: an input is read; quit leaves the loop; else
\* the history is cut when too long, and a query that is no product query is
\* appended and goes to the agent
ChatInput ==
    /\ cpc = "input"
    /\ \E kind \in {"quit", "product", "other"} :
          IF kind = "quit"
          THEN cpc' = "ended" /\ UNCHANGED <<turn, messages>>
          ELSE /\ turn < MaxTurns
               /\ turn' = turn + 1
               /\ IF kind = "product"
                  THEN cpc' = "mcp" /\ messages' = TrimHistory(messages)
                  ELSE /\ cpc' = "agent"
                       /\ messages' = Append(TrimHistory(messages), UserMessage(turn + 1))
    /\ cproducts' = JNull
    /\ called' = <<>>
    /\ toolOut' = NoCall
    /\ before' = JNull
    /\ scraped' = NoCall
    /\ UNCHANGED tool

\* lines 421..434: the MCP tool, when there is one; its exception gives None
ChatCallTool ==
    /\ cpc = "mcp"
    /\ IF tool
       THEN \E out \in ToolOutcomes :
               /\ toolOut' = out
               /\ cproducts' = IF out.kind = "raise" THEN JNull ELSE out.val
               /\ called' = Append(called, "mcp")
       ELSE UNCHANGED <<toolOut, cproducts, called>>
    /\ cpc' = "http"
    /\ UNCHANGED <<tool, turn, messages, before, scraped>>

\* lines 437..442: the HTTP fallback when products is falsy; its exception
\* gives None
ChatCallFallback ==
    /\ cpc = "http"
    /\ IF ~Truthy(cproducts)
       THEN \E resp \in QueryResponses :
               /\ cproducts' = IF query(resp).kind = "raise" THEN JNull ELSE query(resp).val
               /\ called' = Append(called, "http")
       ELSE UNCHANGED <<cproducts, called>>
    /\ cpc' = "scrape"
    /\ UNCHANGED <<tool, turn, messages, toolOut, before, scraped>>

\* lines 445..469: search and scrape when need_scrape; its records replace
\* products when there are any
ChatScrape ==
    /\ cpc = "scrape"
    /\ before' = cproducts
    /\ IF need_scrape(cproducts)
       THEN \E scraped_products \in ScrapeResults :
               /\ scraped' = Ret(scraped_products)
               /\ cproducts' = IF Truthy(scraped_products) THEN scraped_products ELSE cproducts
               /\ called' = Append(called, "scrape")
       ELSE UNCHANGED <<scraped, cproducts, called>>
    /\ cpc' = "summarize"
    /\ UNCHANGED <<tool, turn, messages, toolOut>>

\* lines 472..484: the query is appended and the agent summarizes, an
\* exception of the agent becoming the summary; the products are printed
ChatSummarize ==
    /\ cpc = "summarize"
    /\ messages' = Append(messages, UserMessage(turn))
    /\ cpc' = "input"
    /\ UNCHANGED <<tool, turn, cproducts, called, toolOut, before, scraped>>

\* lines 488..500: the agent answers, or its exception is printed
ChatAgent ==
    /\ cpc = "agent"
    /\ cpc' = "input"
    /\ UNCHANGED <<tool, turn, messages, cproducts, called, toolOut, before, scraped>>

\* ============================================================ specifications

vars == <<svars, fvars, dvars, pvars, cvars>>

\* ---- one call of search_all

InitSearch ==
    /\ apiKey \in BOOLEAN
    /\ spc = "enter"
    /\ sargs \in [query : Queries, site : Sites, num_results : 0..MaxCount]
    /\ fcCalls = 0
    /\ ddgCalls = 0
    /\ fcReq = <<>>
    /\ fcResp = NoSearchResp
    /\ fcOut = Ret(<<>>)
    /\ ddgReq = <<>>
    /\ ddgOut = <<>>
    /\ sres = Ret(<<>>)
    /\ validators = FALSE
    /\ fetch = [t \in Threads |-> FetchIdle]
    /\ browsers = {}
    /\ launched = 0
    /\ started = 0
    /\ DiscoverIdle
    /\ ParseIdle
    /\ ChatIdle

NextSearch ==
    \/ SearchAllCallFirecrawl(SearchResponses) /\ UNCHANGED <<fvars, dvars, pvars, cvars>>
    \/ SearchAllAfterFirecrawl /\ UNCHANGED <<fvars, dvars, pvars, cvars>>
    \/ SearchAllFallback(DdgResponses) /\ UNCHANGED <<fvars, dvars, pvars, cvars>>

SpecSearch == InitSearch /\ [][NextSearch]_vars

\* ---- one call of scrape_website

InitFetch ==
    /\ apiKey \in BOOLEAN
    /\ SearchIdle
    /\ validators \in BOOLEAN
    /\ \E url \in UrlInputs : fetch = [t \in Threads |-> IF t = 1 THEN FetchEnter(url) ELSE FetchIdle]
    /\ browsers = {}
    /\ launched = 0
    /\ started = 0
    /\ DiscoverIdle
    /\ ParseIdle
    /\ ChatIdle

NextFetch ==
    \/ ScrapeValidate(1) /\ UNCHANGED <<svars, dvars, pvars, cvars>>
    \/ ScrapeCallFirecrawl(1, ScrapeResponses) /\ UNCHANGED <<svars, dvars, pvars, cvars>>
    \/ SeleniumStart(1) /\ UNCHANGED <<svars, dvars, pvars, cvars>>
    \/ SeleniumGet(1) /\ UNCHANGED <<svars, dvars, pvars, cvars>>
    \/ SeleniumPageSource(1, PageSources) /\ UNCHANGED <<svars, dvars, pvars, cvars>>
    \/ SeleniumQuit(1) /\ UNCHANGED <<svars, dvars, pvars, cvars>>

SpecFetch == InitFetch /\ [][NextFetch]_vars

\* ---- several threads, each calling scrape_website again and again

InitBrowser ==
    /\ apiKey \in BOOLEAN
    /\ SearchIdle
    /\ validators \in BOOLEAN
    /\ fetch = [t \in Threads |-> FetchIdle]
    /\ browsers = {}
    /\ launched = 0
    /\ started = 0
    /\ DiscoverIdle
    /\ ParseIdle
    /\ ChatIdle

NextBrowser ==
    \/ \E t \in Threads : StartFetch(t) /\ UNCHANGED <<svars, dvars, pvars, cvars>>
    \/ \E t \in Threads : ScrapeValidate(t) /\ UNCHANGED <<svars, dvars, pvars, cvars>>
    \/ \E t \in Threads : ScrapeCallFirecrawl(t, FewScrapeResponses) /\ UNCHANGED <<svars, dvars, pvars, cvars>>
    \/ \E t \in Threads : SeleniumStart(t) /\ UNCHANGED <<svars, dvars, pvars, cvars>>
    \/ \E t \in Threads : SeleniumGet(t) /\ UNCHANGED <<svars, dvars, pvars, cvars>>
    \/ \E t \in Threads : SeleniumPageSource(t, FewPageSources) /\ UNCHANGED <<svars, dvars, pvars, cvars>>
    \/ \E t \in Threads : SeleniumQuit(t) /\ UNCHANGED <<svars, dvars, pvars, cvars>>

SpecBrowser == InitBrowser /\ [][NextBrowser]_vars

\* ---- one call of fetch_products_via_scrape

InitDiscover ==
    /\ apiKey \in BOOLEAN
    /\ SearchIdle
    /\ validators \in BOOLEAN
    /\ fetch = [t \in Threads |-> FetchIdle]
    /\ browsers = {}
    /\ launched = 0
    /\ started = 0
    /\ dpc = "start"
    /\ dargs \in [query : Queries, num_results : {MaxCount, DefaultNumResults}]
    /\ candidates = <<>>
    /\ idx = 0
    /\ products = <<>>
    /\ fetched = <<>>
    /\ dres = Ret(<<>>)
    /\ ParseIdle
    /\ ChatIdle

NextDiscover ==
    \/ DiscoverCallSearch /\ UNCHANGED <<fvars, pvars, cvars>>
    \/ SearchAllCallFirecrawl(DiscoverSearchResponses) /\ UNCHANGED <<fvars, dvars, pvars, cvars>>
    \/ SearchAllAfterFirecrawl /\ UNCHANGED <<fvars, dvars, pvars, cvars>>
    \/ SearchAllFallback(DiscoverDdgResponses) /\ UNCHANGED <<fvars, dvars, pvars, cvars>>
    \/ DiscoverAfterSearch /\ UNCHANGED <<svars, fvars, pvars, cvars>>
    \/ DiscoverNextCandidate /\ UNCHANGED <<svars, pvars, cvars>>
    \/ ScrapeValidate(1) /\ UNCHANGED <<svars, dvars, pvars, cvars>>
    \/ ScrapeCallFirecrawl(1, FewScrapeResponses) /\ UNCHANGED <<svars, dvars, pvars, cvars>>
    \/ SeleniumStart(1) /\ UNCHANGED <<svars, dvars, pvars, cvars>>
    \/ SeleniumGet(1) /\ UNCHANGED <<svars, dvars, pvars, cvars>>
    \/ SeleniumPageSource(1, DiscoverPageSources) /\ UNCHANGED <<svars, dvars, pvars, cvars>>
    \/ SeleniumQuit(1) /\ UNCHANGED <<svars, dvars, pvars, cvars>>
    \/ DiscoverAfterScrape /\ UNCHANGED <<svars, pvars, cvars>>

SpecDiscover == InitDiscover /\ [][NextDiscover]_vars

\* ---- one call of parse_product_page

InitParse ==
    /\ apiKey = FALSE
    /\ SearchIdle
    /\ validators = FALSE
    /\ fetch = [t \in Threads |-> FetchIdle]
    /\ browsers = {}
    /\ launched = 0
    /\ started = 0
    /\ DiscoverIdle
    /\ ppc = "start"
    /\ phtml \in Pages
    /\ purl \in PageUrls
    /\ pres = Ret(ParseFailed(<<>>))
    /\ ChatIdle

NextParse ==
    \/ ParseCall /\ UNCHANGED <<svars, fvars, dvars, cvars>>

SpecParse == InitParse /\ [][NextParse]_vars

\* ---- the chat loop

InitChat ==
    /\ apiKey = TRUE
    /\ SearchIdle
    /\ validators = FALSE
    /\ fetch = [t \in Threads |-> FetchIdle]
    /\ browsers = {}
    /\ launched = 0
    /\ started = 0
    /\ DiscoverIdle
    /\ ParseIdle
    /\ cpc = "input"
    /\ tool \in BOOLEAN
    /\ turn = 0
    /\ messages = <<SystemMessage>>
    /\ cproducts = JNull
    /\ called = <<>>
    /\ toolOut = NoCall
    /\ before = JNull
    /\ scraped = NoCall

NextChat ==
    \/ ChatInput /\ UNCHANGED <<svars, fvars, dvars, pvars>>
    \/ ChatCallTool /\ UNCHANGED <<svars, fvars, dvars, pvars>>
    \/ ChatCallFallback /\ UNCHANGED <<svars, fvars, dvars, pvars>>
    \/ ChatScrape /\ UNCHANGED <<svars, fvars, dvars, pvars>>
    \/ ChatSummarize /\ UNCHANGED <<svars, fvars, dvars, pvars>>
    \/ ChatAgent /\ UNCHANGED <<svars, fvars, dvars, pvars>>

SpecChat == InitChat /\ [][NextChat]_vars

\* ---------------------------------------------------- claims on the search

\* the request had no usable answer: no key, a network error, a status other
\* than 200, or a body that is not JSON
SearchRequestFailed ==
    \/ ~apiKey
    \/ fcResp.net # "ok"
    \/ fcResp.status # 200
    \/ ~fcResp.json

\* C1: the list search_all returns has at most num_results elements and holds
\* no URL twice, whichever strategy and response shape produced it.
C1_ResultCappedAndUnique ==
    spc = "returned" =>
        /\ Len(sres.val) <= sargs.num_results
        /\ NoDuplicates(sres.val)

\* C2: in one call of search_all the primary strategy runs exactly once; a
\* non-empty primary result is returned without running the fallback; an empty
\* one makes the fallback run exactly once, and its result is returned.
C2_PrimaryThenFallbackOnce ==
    /\ fcCalls <= 1
    /\ ddgCalls <= 1
    /\ spc # "enter" => fcCalls = 1
    /\ ddgCalls = 1 => fcOut = Ret(<<>>)
    /\ spc = "returned" =>
          /\ fcOut.kind = "ret"
          /\ fcOut.val # <<>> => ddgCalls = 0 /\ sres = Ret(fcOut.val)
          /\ fcOut.val = <<>> => ddgCalls = 1 /\ sres = Ret(ddgOut)

\* C2, its case: the primary strategy returned nothing and the fallback's
\* non-empty list came back
C2_Witness ==
    /\ spc = "returned"
    /\ fcCalls = 1
    /\ fcOut = Ret(<<>>)
    /\ ddgCalls = 1
    /\ sres.val # <<>>

\* C3: firecrawl_search never raises, whatever the response; it returns a list,
\* the empty one when the request failed or the body could not be parsed.
C3_FirecrawlSearchNeverRaises ==
    fcCalls = 1 =>
        /\ fcOut.kind = "ret"
        /\ SearchRequestFailed => fcOut.val = <<>>

\* ------------------------------------------------- claims on the fetch chain

InSelenium(f) == f.pc \in {"sel_get", "sel_source", "sel_quit"}
FetchOver(f) == f.pc \in {"idle", "returned", "raised"}

\* C4: in one call of scrape_website on an accepted URL the API strategy runs
\* first and exactly once, the browser strategy runs (once) only when the API
\* strategy gave no or empty HTML, and non-empty API HTML is the result, with no
\* browser launched.
C4_StrategiesInOrderOnce ==
    LET f == fetch[1]
    IN  /\ f.apiCalls <= 1
        /\ f.selCalls <= 1
        /\ f.pc \in {"sel_start", "sel_get", "sel_source", "sel_quit", "returned"} => f.apiCalls = 1
        /\ f.selCalls = 1 => f.apiCalls = 1 /\ f.apiOut.kind = "ret" /\ ~Truthy(f.apiOut.val)
        /\ f.apiCalls = 1 /\ Truthy(f.apiOut.val) =>
              /\ f.pc = "returned"
              /\ f.res = Ret(f.apiOut.val)
              /\ f.selCalls = 0
              /\ launched = 0
        /\ f.pc = "returned" /\ ~Truthy(f.apiOut.val) => f.selCalls = 1

\* C4, its case: the API strategy gave nothing, the browser was launched once
\* and its page source is the result
C4_Witness ==
    LET f == fetch[1]
    IN  /\ f.pc = "returned"
        /\ f.apiCalls = 1
        /\ f.apiOut = Ret(JNull)
        /\ f.selCalls = 1
        /\ launched = 1
        /\ f.res = Ret(JStr(DocCanon))

\* C5: when the API strategy yields no HTML and the browser strategy raises or
\* yields an empty page source, scrape_website raises; it never returns empty
\* HTML as a successful result.
C5_BothFailRaises ==
    LET f == fetch[1]
    IN  /\ f.pc = "returned" => Truthy(f.res.val)
        /\ FetchOver(f) /\ f.selCalls = 1 /\ ~Truthy(f.pending.val) => f.pc = "raised"

\* the API strategy's request failed: no key, a transport error, a body that
\* is not JSON or not an object, or an object with no HTML text under html,
\* content or results[0].html
ApiNoHtml(resp) ==
    \/ ~apiKey
    \/ resp.net # "ok"
    \/ ~resp.json
    \/ resp.body.t # "dict"
    \/ /\ Get(resp.body, "html").t # "str"
       /\ Get(resp.body, "content").t # "str"
       /\ LET r == Get(resp.body, "results")
          IN  ~(r.t = "list" /\ r.l # <<>> /\ r.l[1].t = "dict" /\ Get(r.l[1], "html").t = "str")

\* C6 as stated: scrape_with_firecrawl never propagates an exception, and it
\* returns None on a missing key, a transport error, any non-2xx response, a
\* body that is not a JSON object, or a body with no HTML field.
C6_NoneOnAnyNon2xx ==
    LET f == fetch[1]
    IN  f.apiCalls = 1 =>
          /\ f.apiOut.kind = "ret"
          /\ ApiNoHtml(f.apiResp) \/ f.apiResp.status \notin 200..299 => f.apiOut.val = JNull

\* C6, amended: scrape_with_firecrawl never propagates an exception, and it
\* returns None on a missing key, a transport error, any 4xx or 5xx response, a
\* body that is not a JSON object, or a body with no HTML field.
C6_NoneOnErrorStatus ==
    LET f == fetch[1]
    IN  f.apiCalls = 1 =>
          /\ f.apiOut.kind = "ret"
          /\ ApiNoHtml(f.apiResp) \/ f.apiResp.status \in 400..599 => f.apiOut.val = JNull

\* C6, its case: the API answered 429 to a keyed request, the strategy
\* returned None and the chain went on to the browser strategy
C6_Witness ==
    LET f == fetch[1]
    IN  /\ apiKey
        /\ f.apiCalls = 1
        /\ f.apiResp.net = "ok"
        /\ f.apiResp.status = 429
        /\ f.apiOut = Ret(JNull)
        /\ f.pc = "sel_start"

\* C7: every browser instance the browser strategy created is ended before
\* the invocation returns or raises, on every exit path, and each invocation
\* has an instance of its own: a running instance belongs to exactly one
\* invocation, one that is still inside its try block, and none runs once all
\* invocations are over.
C7_BrowserEndedOnEveryExit ==
    /\ \A b \in browsers : \E t \in Threads : fetch[t].driver = b /\ InSelenium(fetch[t])
    /\ \A t1, t2 \in Threads :
          t1 # t2 /\ InSelenium(fetch[t1]) /\ InSelenium(fetch[t2])
              => fetch[t1].driver # fetch[t2].driver
    /\ \A t \in Threads : FetchOver(fetch[t]) => fetch[t].driver \notin browsers
    /\ (\A t \in Threads : FetchOver(fetch[t])) => browsers = {}

\* C7, its case: one invocation has left by an exception of its try block with
\* quit() raising too, its instance is ended, and another invocation's
\* instance is running
C7_Witness ==
    \E t1, t2 \in Threads :
        /\ t1 # t2
        /\ fetch[t1].pc = "raised"
        /\ fetch[t1].driver # 0
        /\ fetch[t1].quitRaised
        /\ fetch[t1].driver \notin browsers
        /\ fetch[t2].driver \in browsers

\* ---------------------------------------------- claims on the orchestrator

\* the fetch of a candidate succeeded: scrape_website returned, and not nothing
FetchSucceeded(e) == e.out.kind = "ret" /\ Truthy(e.out.val)

SourceUrls(recs) == [i \in 1..Len(recs) |-> recs[i].source_url]
TriedUrls(tries) == [i \in 1..Len(tries) |-> tries[i].url]

\* C8: fetch_products_via_scrape returns exactly one record per candidate whose
\* fetch succeeded, in the candidates' order; every candidate is tried once, in
\* order, whatever happened to the ones before it.
C8_OneRecordPerSuccessInOrder ==
    /\ Len(fetched) <= Len(candidates)
    /\ TriedUrls(fetched) = SubSeq(candidates, 1, Len(fetched))
    /\ SourceUrls(products) = TriedUrls(SelectSeq(fetched, FetchSucceeded))
    /\ dpc \in {"loop", "scraping"} => idx = Len(fetched) + 1
    /\ dpc = "done" => Len(fetched) = Len(candidates) /\ dres = Ret(products)

\* C8, its case: six candidates, the second failed by an exception and another
\* by an empty page, and the four others gave the four records
C8_Witness ==
    /\ dpc = "done"
    /\ Len(candidates) = 6
    /\ Len(dres.val) = 4
    /\ fetched[2].out.kind = "raise"
    /\ \E i \in 3..5 : fetched[i].out = Ret(JStr(NoHtml))
    /\ FetchSucceeded(fetched[6])

\* C9: fetch_products_via_scrape never raises; when search_all raises or gives
\* no candidate it returns the empty list and scrape_website is never called;
\* an exception of scrape_website for one candidate only skips that candidate.
C9_NoExceptionReachesCaller ==
    /\ dpc # "raised"
    /\ dres.kind = "ret"
    /\ dpc \in {"loop", "scraping", "done"} /\ (spc = "raised" \/ sres.val = <<>>) =>
          /\ candidates = <<>>
          /\ fetched = <<>>
          /\ fetch[1].pc = "idle"
          /\ launched = 0
          /\ dpc = "done" => dres = Ret(<<>>)
    /\ \A i \in 1..Len(fetched) :
          fetched[i].out.kind = "raise" =>
              /\ Len(products) <= Len(fetched) - 1
              /\ dpc = "done" \/ idx > i

\* C9, its case: search_all raised, and the call returned the empty list
C9_Witness ==
    /\ dpc = "done"
    /\ spc = "raised"
    /\ dres = Ret(<<>>)

\* C10 as stated: blank input is rejected, input without an http:// or
\* https:// prefix gets https:// put before it, prefixed input is left
\* unchanged, and no strategy runs on rejected input or on a URL without scheme.
C10_PrefixOrUnchanged ==
    LET f == fetch[1]
    IN  f.pc # "enter" =>
          /\ Strip(f.url) = <<>> => f.pc = "raised" /\ f.apiCalls = 0 /\ f.selCalls = 0
          /\ Strip(f.url) # <<>> /\ ~HasScheme(f.url) => f.url_norm = JStr(HTTPS \o f.url)
          /\ HasScheme(f.url) => f.url_norm = JStr(f.url)
          /\ f.apiCalls > 0 => HasScheme(f.apiUrl)
          /\ f.selCalls > 0 => HasScheme(f.navUrl)

\* scrape_website refuses the input: it is blank, or the validators module is
\* there and finds the normalized URL malformed
UrlRejected(f) ==
    \/ Strip(f.url) = <<>>
    \/ validators /\ ~ValidatorsUrl(f.url_norm.s)

\* C10, amended: surrounding whitespace is stripped first; blank input is
\* rejected, stripped input without an http:// or https:// prefix gets https://
\* put before it, stripped input with one is the result as it is; a strategy is
\* only ever invoked with the normalized URL, which has a scheme, and none is
\* invoked on rejected input.
C10_StripThenPrefix ==
    LET f == fetch[1]
        u == Strip(f.url)
    IN  f.pc # "enter" =>
          /\ UrlRejected(f) => f.pc = "raised" /\ f.apiCalls = 0 /\ f.selCalls = 0
          /\ u # <<>> /\ ~HasScheme(u) => f.url_norm = JStr(HTTPS \o u)
          /\ HasScheme(u) => f.url_norm = JStr(u)
          /\ f.apiCalls > 0 => HasScheme(f.apiUrl) /\ f.apiUrl = f.url_norm.s
          /\ f.selCalls > 0 => HasScheme(f.navUrl) /\ f.navUrl = f.url_norm.s

\* C10, its case: "example.com/x" with whitespace around it was normalized to
\* "https://example.com/x" and handed to the API strategy
C10_Witness ==
    LET f == fetch[1]
    IN  /\ f.url = <<" ">> \o EXAMPLE \o <<"\t", "\n">>
        /\ f.url_norm = JStr(HTTPS \o EXAMPLE)
        /\ f.apiCalls = 1
        /\ f.apiUrl = HTTPS \o EXAMPLE

\* --------------------------------------------------- claims on the extractor

\* C11: parse_product_page never raises, whatever html and url are (an empty
\* text, JSON-LD that is malformed or no object, a text without elements);
\* and when parsing fails internally the record has name, price, image and
\* raw_title absent and link and source_url equal to the input URL.
C11_NeverRaisesFailureRecord ==
    ppc = "done" =>
        /\ pres.kind = "ret"
        /\ pres.val.source_url = purl
        /\ SoupRaises(phtml) =>
              /\ pres.val.name = JNull
              /\ pres.val.price = JNull
              /\ pres.val.image = JNull
              /\ pres.val.raw_title = JNull
              /\ pres.val.link = purl

\* C11, its case: the parser refused the html, and the call returned the
\* record that has the input URL only
C11_Witness ==
    /\ ppc = "done"
    /\ SoupRaises(phtml)
    /\ pres.kind = "ret"
    /\ pres.val.link = PageUrl
    /\ pres.val.name = JNull

\* the link the page asks for: its first canonical link's href resolved
\* against url, url without one
CanonicalOf(els, url) ==
    IF \E i \in 1..Len(els) : els[i].tag = "link" /\ els[i].rel = "canonical" /\ els[i].href # <<>>
    THEN urljoin(url, els[CHOOSE i \in 1..Len(els) :
                            /\ els[i].tag = "link" /\ els[i].rel = "canonical" /\ els[i].href # <<>>
                            /\ \A j \in 1..(i - 1) : ~(els[j].tag = "link" /\ els[j].rel = "canonical")].href)
    ELSE url

\* C12: every record in the result of fetch_products_via_scrape has source_url
\* equal to the URL that was fetched, and a link that is not absent: the
\* canonical href resolved against the source URL, or the source URL.
C12_SourceUrlIsFetchedUrl ==
    LET done == SelectSeq(fetched, FetchSucceeded)
    IN  \A i \in 1..Len(products) :
            /\ products[i].source_url = done[i].fetchedUrl
            /\ products[i].link # <<>>
            /\ products[i].link = CanonicalOf(ScrapedHtml(done[i].out.val).s, products[i].source_url)

RECURSIVE LdBlocks(_, _)
\* the JSON-LD blocks of the page in document order, from the i-th element on:
\* the value of each script that is JSON, or its elements when it is a list
LdBlocks(els, i) ==
    IF i > Len(els) THEN <<>>
    ELSE IF els[i].tag = "script" /\ els[i].type = "application/ld+json" /\ els[i].parse = "ok"
    THEN (IF els[i].json.t = "list" THEN els[i].json.l ELSE <<els[i].json>>) \o LdBlocks(els, i + 1)
    ELSE LdBlocks(els, i + 1)

\* the block is an object whose type, or the first element of it, is Product
\* in any case
IsProductBlock(b) ==
    /\ b.t = "dict"
    /\ LET given == Or(Get(b, "@type"), Get(b, "type"))
           type == IF given.t = "list" /\ given.l # <<>> THEN given.l[1] ELSE given
       IN  type.t = "str" /\ Lower(type.s) = PRODUCT

\* the Product blocks that have a name
NamedProducts(els) == SelectSeq(LdBlocks(els, 1), LAMBDA b : IsProductBlock(b) /\ Truthy(Get(b, "name")))

\* the stripped content of the meta tag called p, absent when there is none
MetaSignal(els, p) ==
    IF \E i \in 1..Len(els) : els[i].tag = "meta" /\ p \in {els[i].property, els[i].name}
                                /\ Strip(els[i].content) # <<>>
    THEN JStr(Strip(els[CHOOSE i \in 1..Len(els) :
                          /\ els[i].tag = "meta" /\ p \in {els[i].property, els[i].name}
                          /\ Strip(els[i].content) # <<>>
                          /\ \A j \in 1..(i - 1) :
                                ~(els[j].tag = "meta" /\ p \in {els[j].property, els[j].name}
                                    /\ Strip(els[j].content) # <<>>)].content))
    ELSE JNull

RECURSIVE FirstSignal(_, _)
\* the first signal of the sequence that is there
FirstSignal(signals, i) ==
    IF i > Len(signals) THEN JNull
    ELSE IF Truthy(signals[i]) THEN signals[i]
    ELSE FirstSignal(signals, i + 1)

\* C13: the name is the first signal that is there, in the order: the name of
\* a JSON-LD Product block, the metas og:title, twitter:title, title, the text
\* of the document's title.
C13_NameByPrecedence ==
    ppc = "done" /\ ~SoupRaises(phtml) =>
        LET els == phtml.s
            named == NamedProducts(els)
        IN  pres.val.name =
               FirstSignal(<< IF named # <<>> THEN Get(named[1], "name") ELSE JNull,
                              MetaSignal(els, "og:title"),
                              MetaSignal(els, "twitter:title"),
                              MetaSignal(els, "title"),
                              title_tag(els) >>, 1)

\* the price of an offer: its price, or that of its priceSpecification, and
\* its currency after a space when it has one
OfferText(offer) ==
    LET amount == Or(Get(offer, "price"), Get(Get(offer, "priceSpecification"), "price"))
        code == Or(Get(offer, "priceCurrency"), Get(offer, "currency"))
    IN  IF ~Truthy(amount) THEN JNull
        ELSE IF Truthy(code) THEN JStr(amount.s \o <<" ">> \o code.s)
        ELSE JStr(amount.s)

\* the price of a Product block: that of its offers, of the first when they
\* are a list
BlockPrice(b) ==
    LET offers == Get(b, "offers")
    IN  OfferText(IF offers.t = "list" /\ offers.l # <<>> THEN offers.l[1] ELSE offers)

\* C14: the price is that of the matched Product's offer, with the same
\* offer's currency once; the metas product:price:amount, og:price:amount,
\* price, twitter:data1, in this order, give it only when JSON-LD gives none.
C14_PriceOfMatchedOffer ==
    ppc = "done" /\ ~SoupRaises(phtml) =>
        LET els == phtml.s
            named == NamedProducts(els)
            meta == FirstSignal(<< MetaSignal(els, "product:price:amount"),
                                   MetaSignal(els, "og:price:amount"),
                                   MetaSignal(els, "price"),
                                   MetaSignal(els, "twitter:data1") >>, 1)
        IN  /\ named # <<>> =>
                 pres.val.price = Or(BlockPrice(named[1]), meta)
            /\ SelectSeq(LdBlocks(els, 1), IsProductBlock) = <<>> =>
                 pres.val.price = meta

IsLdScript(e) == e.tag = "script" /\ e.type = "application/ld+json"

\* the script has a Product block with a name
YieldsName(e) ==
    IsLdScript(e) /\ e.parse = "ok" /\ NamedProducts(<<e>>) # <<>>

\* the script's text is no JSON, or JSON that is neither an object nor a list
Unusable(e) ==
    IsLdScript(e) /\ (e.parse = "bad" \/ (e.parse = "ok" /\ e.json.t \notin {"dict", "list"}))

\* the page without the JSON-LD scripts that come after its k-th element
WithoutLaterScripts(els, k) ==
    SubSeq(els, 1, k) \o SelectSeq(SubSeq(els, k + 1, Len(els)), LAMBDA e : ~IsLdScript(e))

\* C15: the scan stops at the first Product block that yields a name, so that
\* the scripts after it change nothing of name, price and image; and a script
\* whose text is malformed or no object is skipped, the later ones being
\* scanned as if it were not there.
C15_ScanStopsAndSkips ==
    ppc = "done" /\ ~SoupRaises(phtml) =>
        LET els == phtml.s
            got == pres.val
        IN  /\ \A k \in 1..Len(els) :
                  YieldsName(els[k]) /\ (\A j \in 1..(k - 1) : ~YieldsName(els[j])) =>
                      LET cut == parse_product_page(JStr(WithoutLaterScripts(els, k)), purl)
                      IN  got.name = cut.name /\ got.price = cut.price /\ got.image = cut.image
            /\ got = parse_product_page(JStr(SelectSeq(els, LAMBDA e : ~Unusable(e))), purl)

\* --------------------------------------------------- claims on the chat loop

\* C16: whatever the inputs, the history starts with the system message and
\* never holds more than 41 messages; when it holds more than 40 at the start
\* of a turn it is cut to the system message and the 20 most recent messages
\* before the turn's user message is appended, and nothing else changes it.
C16_HistoryBounded ==
    /\ [](messages[1] = SystemMessage /\ Len(messages) <= 41)
    /\ [][ /\ turn' = turn + 1 /\ Len(messages) > 40 =>
                LET cut == <<SystemMessage>> \o SubSeq(messages, Len(messages) - 19, Len(messages))
                IN  messages' = cut \/ messages' = Append(cut, UserMessage(turn'))
           /\ turn' = turn + 1 /\ Len(messages) <= 40 =>
                messages' = messages \/ messages' = Append(messages, UserMessage(turn'))
           /\ turn' = turn /\ messages' # messages =>
                messages' = Append(messages, UserMessage(turn)) ]_vars

\* C16, its case: the 41st turn found 41 messages, and the history is now the
\* system message, the messages of the turns 21 to 40 and that of the 41st
C16_Witness ==
    /\ turn = 41
    /\ Len(messages) = 22
    /\ messages[1] = SystemMessage
    /\ messages[2] = UserMessage(21)
    /\ messages[22] = UserMessage(41)

\* the place of a source in the fixed order
SourceRank(source) == CASE source = "mcp" -> 1 [] source = "http" -> 2 [] source = "scrape" -> 3

\* nothing, or a text, list or dict without content
EmptyResult(v) == v.t = "null" \/ (v.t \in {"str", "list", "dict"} /\ v.s = <<>> /\ v.l = <<>>)

\* C17: for one product query the sources are called in the order MCP tool,
\* HTTP fallback, search-and-scrape; the HTTP fallback only when the MCP tool
\* is unavailable, failed or gave an empty result; search-and-scrape only when
\* the result so far is empty, a dict without a non-empty list under items,
\* results, products, hits or data, or a string shorter than 10 characters; a
\* scrape without records leaves the result as it was; and a source that
\* failed does not end the loop.
C17_SourcesInOrder ==
    /\ \A i, j \in 1..Len(called) : i < j => SourceRank(called[i]) < SourceRank(called[j])
    /\ (\E i \in 1..Len(called) : called[i] = "mcp") => tool
    /\ (\E i \in 1..Len(called) : called[i] = "http") =>
          ~tool \/ toolOut.kind = "raise" \/ EmptyResult(toolOut.val)
    /\ (\E i \in 1..Len(called) : called[i] = "scrape") =>
          \/ EmptyResult(before)
          \/ before.t = "dict"
               /\ \A key \in {"items", "results", "products", "hits", "data"} :
                     ~(Get(before, key).t = "list" /\ Get(before, key).l # <<>>)
          \/ before.t = "str" /\ Len(before.s) < 10
    /\ scraped = Ret(JList(<<>>)) => cproducts = before
    /\ toolOut.kind = "raise" => cpc \in {"http", "scrape", "summarize", "input"}
    /\ cpc \in {"input", "mcp", "http", "scrape", "summarize", "agent", "ended"}

\* C17, its case: the tool failed, the HTTP fallback gave a text of nine
\* characters, the scrape ran and found nothing, and the text is the result
C17_Witness ==
    /\ cpc = "summarize"
    /\ called = <<"mcp", "http", "scrape">>
    /\ toolOut.kind = "raise"
    /\ before = JStr(NineChars)
    /\ scraped = Ret(JList(<<>>))
    /\ cproducts = JStr(NineChars)

====
